---- MODULE Spec2Model ----
(***************************************************************************)
(* Model of the curlex test execution engine: the sequential runner        *)
(* (Runner.Run), the parallel runner with its worker pool, feeder, closer  *)
(* and collector (Runner.RunParallel), the retry loop                      *)
(* (Executor.ExecuteWithRetry), the single HTTP execution                  *)
(* (Executor.Execute) and the assertion engine (Engine.Validate).          *)
(*                                                                         *)
(* The worker goroutines of RunParallel are anonymous closures: the pool   *)
(* is a bag of process records, not a function from worker names.          *)
(***************************************************************************)
EXTENDS Integers, Sequences, FiniteSets, Bags, TLC

(* ------------------------------ bounds --------------------------------- *)
MaxSeqTests == 2
MaxSeqRetries == 1
MaxRetries == 2
MaxParTests == 3
MaxConc == 2
MaxParRetries == 1
MaxParWork == 6
MaxDefaultTests == 1
MaxLiveWork == 4

(* --------------------------- program constants ------------------------- *)
DefaultConcurrency == 10

StatusOK == 200
StatusInternalServerError == 500

\* the fail-fast integration test: 5 tests, concurrency 2
FailFastTests == 5
FailFastConcurrency == 2

\* status codes the modelled server answers with
Statuses == {StatusOK, StatusInternalServerError}

\* outcome of one client.Do: a transport error or a response status
Outcomes ==
  {[kind |-> "error", status |-> 0]}
    \cup {[kind |-> "response", status |-> s] : s \in Statuses}

(* ------------------------------ variables ------------------------------ *)
VARIABLES
  cfg,          \* the call: mode, suite.Tests, concurrency, failFast; the
                \* variant of RunParallel that is built; and whether the
                \* network can fail on its own
  ctxDone,      \* the caller's context is cancelled
  runCtxDone,   \* runCtx (derived from ctx by WithCancel) is cancelled
  procs,        \* bag of goroutines executing tests: the caller of Run, or
                \* the workers of RunParallel; each a record of its locals
  jobs,         \* the jobs channel buffer (indices into suite.Tests)
  jobsClosed,
  results,      \* the results channel buffer
  resultsClosed,
  feederIdx,    \* next index the feeder enqueues
  feederDone,
  mainPc,       \* position of the goroutine that called Run / RunParallel
  testResults,  \* results accumulated by Run / by the collector
  ret,          \* what Run / RunParallel returned
  progress,     \* number of Progress.Increment calls
  trigger,      \* the failed result whose worker cancelled runCtx first
  validation    \* locals of a running Engine.Validate: the position of its
                \* range loop and its failures slice

vars == <<cfg, ctxDone, runCtxDone, procs, jobs, jobsClosed, results,
          resultsClosed, feederIdx, feederDone, mainPc, testResults, ret,
          progress, trigger, validation>>

chanVars == <<jobs, jobsClosed, results, resultsClosed, feederIdx, feederDone>>
runVars == <<mainPc, testResults, ret, progress>>

(* ------------------------------ data model ----------------------------- *)
\* models.TestResult; Test is the index of the test in suite.Tests and
\* Test = 0 stands for a nil *TestResult
NilResult ==
  [Test |-> 0, Success |-> FALSE, StatusCode |-> 0, Error |-> "nil",
   Failures |-> <<>>]

NoReturn == [done |-> FALSE]

\* a slice: "var failures []models.AssertionFailure" is nil until the first
\* append
NilSlice == [nil |-> TRUE, elems |-> <<>>]

append(slice, x) == [nil |-> FALSE, elems |-> Append(slice.elems, x)]

\* no Engine.Validate is running
NoValidation == [i |-> 0, failures |-> NilSlice]

\* return value of ExecuteWithRetry; NoCall while none has returned
NoCall == [result |-> NilResult, err |-> "none"]

Min(a, b) == IF a < b THEN a ELSE b

Tests == cfg.tests
NumTests == Len(cfg.tests)

\* variant: the pool is twice as large
concurrencyDoubled ==
  2 * (IF cfg.concurrency <= 0 THEN DefaultConcurrency ELSE cfg.concurrency)

\* "Default concurrency to 10 if not specified"
concurrency == IF cfg.concurrency <= 0 THEN DefaultConcurrency ELSE cfg.concurrency

\* capacity of the jobs and results channels: min(len(suite.Tests),
\* concurrency*2) in the bounded variant of RunParallel, len(suite.Tests) in
\* the simple one
bufferSize ==
  IF cfg.variant = "simple" THEN NumTests ELSE Min(NumTests, concurrency * 2)

\* locals of a goroutine that is not inside the body of its loop; execs,
\* sleeps and delays (the durations given to time.After) describe the
\* current call of ExecuteWithRetry
Idle(role, pc) ==
  [role |-> role, pc |-> pc, cur |-> 0, attempt |-> 0, lastResult |-> NilResult,
   ctxAtStart |-> FALSE, returned |-> NoCall, execs |-> 0, sleeps |-> 0,
   delays |-> <<>>, res |-> NilResult]

Procs == BagToSet(procs)
Workers == {p \in Procs : p.role = "worker"}

\* the context a goroutine passes to ExecuteWithRetry: ctx in Run, runCtx in
\* the workers
CtxDone(p) == IF p.role = "run" THEN ctxDone ELSE runCtxDone

\* goroutine p takes a step and becomes q
Becomes(p, q) == procs' = (procs (-) SetToBag({p})) (+) SetToBag({q})

(* -------------------------------- strings ------------------------------- *)
\* a Go string that the program parses is the sequence of its characters
Digits == <<"0", "1", "2", "3", "4", "5", "6", "7", "8", "9">>

IsDigit(c) == \E d \in 1..10 : Digits[d] = c

DigitValue(c) == (CHOOSE d \in 1..10 : Digits[d] = c) - 1

\* white space of strings.TrimSpace and of \s
IsSpace(c) == c \in {" ", "\t", "\n", "\r"}

\* s[i:] and s[i:j] of Go, with the positions counted from 1
From(s, i) == SubSeq(s, i, Len(s))

\* the substring sub is in s at position i
HasAt(s, i, sub) ==
  i >= 1 /\ i + Len(sub) - 1 <= Len(s) /\ SubSeq(s, i, i + Len(sub) - 1) = sub

\* the least and the greatest element of a set of positions that is not
\* empty
Least(S) == CHOOSE j \in S : \A k \in S : j <= k

Greatest(S) == CHOOSE j \in S : \A k \in S : j >= k

LeastOrZero(S) == IF S = {} THEN 0 ELSE Least(S)

\* strings.Index: position of the first occurrence of sub, 0 when there is
\* none (Go: -1)
Index(s, sub) == LeastOrZero({i \in 1..(Len(s) + 1) : HasAt(s, i, sub)})

\* strings.Contains
Contains(s, sub) == Index(s, sub) # 0

\* position of the first character from position i on that is not a space
\* (a digit), Len(s) + 1 when there is none
SkipSpaces(s, i) ==
  Least({j \in i..Len(s) : ~IsSpace(s[j])} \cup {Len(s) + 1})

SkipDigits(s, i) ==
  Least({j \in i..Len(s) : ~IsDigit(s[j])} \cup {Len(s) + 1})

\* s from the first to the last of the positions kept, "" when none is kept
Between(s, kept) ==
  IF kept = {} THEN <<>> ELSE SubSeq(s, Least(kept), Greatest(kept))

\* strings.TrimSpace
TrimSpace(s) == Between(s, {j \in 1..Len(s) : ~IsSpace(s[j])})

\* strings.Trim(s, cutset): leading and trailing characters of cutset removed
StringsTrim(s, cutset) == Between(s, {j \in 1..Len(s) : s[j] \notin cutset})

\* strings.Split for a separator that is not empty; i is the position of
\* the first separator in s
RECURSIVE Split(_, _)
SplitAt(s, sep, i) ==
  IF i = 0 THEN <<s>>
  ELSE <<SubSeq(s, 1, i - 1)>> \o Split(From(s, i + Len(sep)), sep)

Split(s, sep) == SplitAt(s, sep, Index(s, sep))

\* strings.ReplaceAll for an old string that is not empty; i is the position
\* of the first old in s
RECURSIVE ReplaceAll(_, _, _)
ReplaceAt(s, old, new, i) ==
  IF i = 0 THEN s
  ELSE SubSeq(s, 1, i - 1) \o new \o ReplaceAll(From(s, i + Len(old)), old, new)

ReplaceAll(s, old, new) == ReplaceAt(s, old, new, Index(s, old))

\* value of a sequence of decimal digits
RECURSIVE DecimalValue(_)
DecimalValue(ds) ==
  IF ds = <<>> THEN 0
  ELSE DecimalValue(SubSeq(ds, 1, Len(ds) - 1)) * 10 + DigitValue(ds[Len(ds)])

\* strconv.Atoi on the strings of the model (short enough to be in range):
\* an optional sign and at least one digit, nothing else
Atoi(s) ==
  LET signed == s # <<>> /\ s[1] \in {"+", "-"}
      ds == IF signed THEN Tail(s) ELSE s
  IN  IF ds # <<>> /\ \A j \in 1..Len(ds) : IsDigit(ds[j])
      THEN [err |-> FALSE,
            n |-> IF signed /\ s[1] = "-" THEN 0 - DecimalValue(ds)
                  ELSE DecimalValue(ds)]
      ELSE [err |-> TRUE, n |-> 0]

\* strconv.Itoa
RECURSIVE Itoa(_)
Itoa(n) ==
  IF n < 0 THEN <<"-">> \o Itoa(0 - n)
  ELSE IF n < 10 THEN <<Digits[n + 1]>>
  ELSE Itoa(n \div 10) \o <<Digits[(n % 10) + 1]>>

\* the characters of the model in the order of their byte values
Alphabet ==
  <<"\t", "\n", "\r", " ", "!", "\"", "&", "'", "+", "-", ".", "/",
    "0", "1", "2", "3", "4", "5", "6", "7", "8", "9", ":", "<", "=", ">",
    "A", "B", "C", "D", "E", "F", "G", "H", "I", "J", "K", "L", "M",
    "N", "O", "P", "Q", "R", "S", "T", "U", "V", "W", "X", "Y", "Z",
    "a", "b", "c", "d", "e", "f", "g", "h", "i", "j", "k", "l", "m",
    "n", "o", "p", "q", "r", "s", "t", "u", "v", "w", "x", "y", "z", "{", "|", "}">>

Ord(c) == CHOOSE k \in 1..Len(Alphabet) : Alphabet[k] = c

\* a < b on Go strings: byte-wise lexicographic order
RECURSIVE Less(_, _)
Less(a, b) ==
  IF b = <<>> THEN FALSE
  ELSE IF a = <<>> THEN TRUE
  ELSE IF Head(a) = Head(b) THEN Less(Tail(a), Tail(b))
  ELSE Ord(Head(a)) < Ord(Head(b))

\* case folding of a character (the letters of the model are ASCII)
Fold(c) ==
  IF Ord(c) >= Ord("A") /\ Ord(c) <= Ord("Z")
  THEN Alphabet[Ord(c) + (Ord("a") - Ord("A"))]
  ELSE c

\* strings.EqualFold
EqualFold(s, t) ==
  Len(s) = Len(t) /\ \A j \in 1..Len(s) : Fold(s[j]) = Fold(t[j])

(* --------------------------- assertion engine -------------------------- *)
\* models.AssertionType
AssertionStatus == "status"
AssertionBody == "body"
AssertionBodyContains == "body_contains"
AssertionJSONPath == "json_path"
AssertionHeader == "header"
AssertionResponseTime == "response_time"

\* variant: the header validator is not registered
validatorsWithoutHeader ==
  {AssertionStatus, AssertionBody, AssertionBodyContains, AssertionJSONPath,
   AssertionResponseTime}

\* assertion types with a registered validator (NewEngine)
validators ==
  {AssertionStatus, AssertionBody, AssertionBodyContains, AssertionJSONPath,
   AssertionHeader, AssertionResponseTime}

\* The Expected, Actual and Message of an AssertionFailure are kept as the
\* sequence of the pieces they are put together from: the literal parts of
\* the format and the printed arguments; <<>> is the empty string.

\* the comparison operators in the order evaluateSingleExpression tries them
statusOperators ==
  << <<">", "=">>, <<"<", "=">>, <<">">>, <<"<">>, <<"=", "=">>, <<"!", "=">> >>

NoMatch == [ok |-> FALSE, left |-> <<>>, right |-> <<>>]

\* a match whose last group are the digits of expr from b up to e - 1, of
\* which there must be one: ok tells whether the pattern matched up to b
numberBetween(expr, ok, left, b, e) ==
  IF ok /\ e > b
  THEN [ok |-> TRUE, left |-> left, right |-> SubSeq(expr, b, e - 1)]
  ELSE NoMatch

numberAt(expr, ok, left, b) ==
  numberBetween(expr, ok, left, b, SkipDigits(expr, b))

\* `OP\s*(\d+)` at position a
operatorAt(expr, op, a) ==
  numberAt(expr, HasAt(expr, a, op), <<>>, SkipSpaces(expr, a + Len(op)))

\* FindStringSubmatch of `^\s*OP\s*(\d+)`
matchOperatorNumber(expr, op) == operatorAt(expr, op, SkipSpaces(expr, 1))

\* `(\d+)\s*OP\s*(\d+)` with its first digit at position i and the digits
\* of the first number ending before position e, the operator at position a
numberOperatorAt(expr, op, i, e, a) ==
  numberAt(expr, IsDigit(expr[i]) /\ HasAt(expr, a, op),
           SubSeq(expr, i, e - 1), SkipSpaces(expr, a + Len(op)))

numberUpTo(expr, op, i, e) ==
  numberOperatorAt(expr, op, i, e, SkipSpaces(expr, e))

matchesAt(expr, op, i) == numberUpTo(expr, op, i, SkipDigits(expr, i))

\* the leftmost of the matches that start at the positions starts
leftmostMatch(expr, op, starts) ==
  IF starts = {} THEN NoMatch ELSE matchesAt(expr, op, Least(starts))

\* FindStringSubmatch of `(\d+)\s*OP\s*(\d+)`: the leftmost match
matchNumberOperatorNumber(expr, op) ==
  leftmostMatch(expr, op, {i \in 1..Len(expr) : matchesAt(expr, op, i).ok})

\* the comparison an operator stands for
compare(op, left, right) ==
  CASE op = <<">", "=">> -> left >= right
    [] op = <<"<", "=">> -> left <= right
    [] op = <<">">> -> left > right
    [] op = <<"<">> -> left < right
    [] op = <<"=", "=">> -> left = right
    [] op = <<"!", "=">> -> left # right

\* "actual OP number" for the match of an "operator number" pattern
compareActual(expr, actual, op) ==
  compare(op, actual, Atoi(matchOperatorNumber(expr, op).right).n)

\* "number OP number" for the match m of a "number operator number" pattern
compareNumbers(op, m) == compare(op, Atoi(m.left).n, Atoi(m.right).n)

\* the first pattern that matches decides: anchored and free are the
\* positions in statusOperators of the operators whose pattern matches
firstMatch(expr, actual, anchored, free) ==
  IF anchored # {}
  THEN compareActual(expr, actual, statusOperators[Least(anchored)])
  ELSE IF free # {}
  THEN compareNumbers(statusOperators[Least(free)],
                      matchNumberOperatorNumber(expr,
                                                statusOperators[Least(free)]))
  ELSE FALSE

\* StatusValidator.evaluateSingleExpression: the "operator number" patterns,
\* then the "number operator number" patterns, each in the order of
\* statusOperators; false when none matches
evaluateSingleExpression(expr, actual) ==
  firstMatch(expr, actual,
             {k \in 1..6 : matchOperatorNumber(expr, statusOperators[k]).ok},
             {k \in 1..6 : matchNumberOperatorNumber(expr, statusOperators[k]).ok})

\* "for _, part := range parts": every part holds, some part holds
allParts(parts, actual) ==
  \A k \in 1..Len(parts) : evaluateSingleExpression(TrimSpace(parts[k]), actual)

anyPart(parts, actual) ==
  \E k \in 1..Len(parts) : evaluateSingleExpression(TrimSpace(parts[k]), actual)

\* evaluateExpression once "status" is replaced by the actual status code
evaluateReplaced(e, actual) ==
  IF Contains(e, <<"&", "&">>)
  THEN allParts(Split(e, <<"&", "&">>), actual)
  ELSE IF Contains(e, <<"|", "|">>)
  THEN anyPart(Split(e, <<"|", "|">>), actual)
  ELSE evaluateSingleExpression(e, actual)

\* variant: a compound expression holds when one of its parts does
evaluateExpressionAnyPart(expr, actual) ==
  anyPart(Split(expr, <<"&", "&">>), actual)

\* StatusValidator.evaluateExpression
evaluateExpression(expr, actual) ==
  evaluateReplaced(IF Contains(expr, <<"s", "t", "a", "t", "u", "s">>)
                   THEN ReplaceAll(expr, <<"s", "t", "a", "t", "u", "s">>,
                                   Itoa(actual))
                   ELSE expr,
                   actual)

\* StatusValidator.isExpression
isExpression(s) ==
  \E op \in {<<">", "=">>, <<"<", "=">>, <<"!", "=">>, <<"=", "=">>, <<">">>,
             <<"<">>, <<"&", "&">>, <<"|", "|">>} : Contains(s, op)

\* StatusValidator.Validate with expected, actual and the result of Atoi
\* at hand; <<>> stands for a nil failure
statusFailure(expected, actual, expectedCode) ==
  IF ~expectedCode.err
  THEN IF actual = expectedCode.n
       THEN <<>>
       ELSE << [Type |-> AssertionStatus,
                Expected |-> <<ToString(expected)>>,
                Actual |-> <<ToString(actual)>>,
                Message |-> <<"expected status ", ToString(expected),
                              ", got ", ToString(actual)>>] >>
  ELSE IF isExpression(expected)
  THEN IF evaluateExpression(expected, actual)
       THEN <<>>
       ELSE << [Type |-> AssertionStatus,
                Expected |-> <<ToString(expected)>>,
                Actual |-> <<ToString(actual)>>,
                Message |-> <<"status ", ToString(actual),
                              " does not satisfy expression: ",
                              ToString(expected)>>] >>
  ELSE << [Type |-> AssertionStatus, Expected |-> <<>>, Actual |-> <<>>,
           Message |-> <<"invalid status assertion format: ",
                         ToString(expected)>>] >>

statusExpected(expected, actual) ==
  statusFailure(expected, actual, Atoi(expected))

\* StatusValidator.Validate
StatusValidate(result, assertion) ==
  statusExpected(TrimSpace(assertion.Value), result.StatusCode)

\* the operators of a header assertion in the order parseExpression looks
\* for them
headerOperators ==
  << <<" ", "c", "o", "n", "t", "a", "i", "n", "s", " ">>,
     <<" ", "=", "=", " ">>, <<" ", "!", "=", " ">>, <<" ", ">", " ">>,
     <<" ", "<", " ">>, <<" ", ">", "=", " ">>, <<" ", "<", "=", " ">> >>

\* expr split at position idx, where op is
splitAt(expr, op, idx) ==
  [err |-> FALSE,
   headerName |-> TrimSpace(SubSeq(expr, 1, idx - 1)),
   operator |-> TrimSpace(op),
   value |-> StringsTrim(TrimSpace(From(expr, idx + Len(op))), {"\"", "'"})]

splitAtOperator(expr, op) == splitAt(expr, op, Index(expr, op))

\* found are the positions in headerOperators of the operators in expr
splitAtFirst(expr, found) ==
  IF found = {}
  THEN [err |-> TRUE, headerName |-> <<>>, operator |-> <<>>, value |-> <<>>]
  ELSE splitAtOperator(expr, headerOperators[Least(found)])

\* HeaderValidator.parseExpression: split at the first operator of the list
\* that occurs; the value loses its surrounding quotes
parseExpression(expr) ==
  splitAtFirst(expr, {k \in 1..Len(headerOperators) :
                        Index(expr, headerOperators[k]) # 0})

\* the first value of one of the entries matching
firstValue(matching) ==
  IF matching = {} THEN <<>> ELSE (CHOOSE h \in matching : TRUE).values[1]

\* HeaderValidator.getHeader: the first value of the header whose name
\* equals name up to case, "" when there is none; headers is the set of the
\* entries of the map (the keys of an http.Header are canonical, no two of
\* them are equal up to case)
getHeader(headers, name) ==
  firstValue({h \in headers : EqualFold(h.key, name) /\ Len(h.values) > 0})

\* strconv.ParseFloat on the header values of the model, which have no
\* fraction, exponent, hexadecimal or inf/nan form: a number is an optional
\* sign and digits
ParseFloat(s) == Atoi(s)

\* evaluateCondition with a and e, what ParseFloat returned for actual and
\* expected
compareValues(actual, operator, expected, a, e) ==
  CASE operator = <<"=", "=">> -> actual = expected
    [] operator = <<"!", "=">> -> actual # expected
    [] operator = <<"c", "o", "n", "t", "a", "i", "n", "s">> ->
         Contains(actual, expected)
    [] operator = <<">">> ->
         IF ~a.err /\ ~e.err THEN a.n > e.n ELSE Less(expected, actual)
    [] operator = <<"<">> ->
         IF ~a.err /\ ~e.err THEN a.n < e.n ELSE Less(actual, expected)
    [] operator = <<">", "=">> ->
         IF ~a.err /\ ~e.err THEN a.n >= e.n ELSE ~Less(actual, expected)
    [] operator = <<"<", "=">> ->
         IF ~a.err /\ ~e.err THEN a.n <= e.n ELSE ~Less(expected, actual)
    [] OTHER -> FALSE

\* HeaderValidator.evaluateCondition
evaluateCondition(actual, operator, expected) ==
  compareValues(actual, operator, expected,
                ParseFloat(actual), ParseFloat(expected))

\* HeaderValidator.Validate after getHeader
headerFailure(expr, parsed, actualValue) ==
  IF actualValue = <<>>
  THEN << [Type |-> AssertionHeader,
           Expected |-> <<"header ", ToString(parsed.headerName),
                          " to exist">>,
           Actual |-> <<"header not found">>,
           Message |-> <<"header ", ToString(parsed.headerName),
                         " not found in response">>] >>
  ELSE IF ~evaluateCondition(actualValue, parsed.operator, parsed.value)
  THEN << [Type |-> AssertionHeader,
           Expected |-> <<ToString(parsed.headerName), " ",
                          ToString(parsed.operator), " ",
                          ToString(parsed.value)>>,
           Actual |-> <<ToString(parsed.headerName), " = ",
                        ToString(actualValue)>>,
           Message |-> <<ToString(parsed.headerName), " ",
                         ToString(parsed.operator), " ",
                         ToString(parsed.value), " failed: got ",
                         ToString(actualValue)>>] >>
  ELSE <<>>

\* HeaderValidator.Validate after parseExpression
headerParsed(result, expr, parsed) ==
  IF parsed.err
  THEN << [Type |-> AssertionHeader, Expected |-> <<>>, Actual |-> <<>>,
           Message |-> <<"invalid expression: ",
                         "no valid operator found in expression: ",
                         ToString(expr)>>] >>
  ELSE headerFailure(expr, parsed, getHeader(result.Headers, parsed.headerName))

headerExpression(result, expr) ==
  headerParsed(result, expr, parseExpression(expr))

\* HeaderValidator.Validate
HeaderValidate(result, assertion) ==
  headerExpression(result, TrimSpace(assertion.Value))

\* truncate of the body validators
truncate(s, maxLen) ==
  IF Len(s) <= maxLen THEN s ELSE SubSeq(s, 1, maxLen) \o <<".", ".", ".">>

\* BodyValidator.Validate
BodyValidate(result, assertion) ==
  IF result.ResponseBody = assertion.Value
  THEN <<>>
  ELSE << [Type |-> AssertionBody,
           Expected |-> <<ToString(assertion.Value)>>,
           Actual |-> <<ToString(truncate(result.ResponseBody, 100))>>,
           Message |-> <<"body mismatch: expected exact match">>] >>

\* BodyContainsValidator.Validate
BodyContainsValidate(result, assertion) ==
  IF Contains(result.ResponseBody, assertion.Value)
  THEN <<>>
  ELSE << [Type |-> AssertionBodyContains,
           Expected |-> <<"body to contain: ", ToString(assertion.Value)>>,
           Actual |-> <<ToString(truncate(result.ResponseBody, 100))>>,
           Message |-> <<"body does not contain ", ToString(assertion.Value)>>] >>

\* one iteration of the loop of Engine.Validate: the failures it appends
\* (the suites of the model have no json_path and no response_time
\* assertion)
ValidateOne(result, assertion) ==
  IF assertion.Type \notin validators
  THEN << [Type |-> assertion.Type, Expected |-> <<>>, Actual |-> <<>>,
           Message |-> <<"unsupported assertion type: ", assertion.Type>>] >>
  ELSE CASE assertion.Type = AssertionStatus -> StatusValidate(result, assertion)
         [] assertion.Type = AssertionHeader -> HeaderValidate(result, assertion)
         [] assertion.Type = AssertionBody -> BodyValidate(result, assertion)
         [] assertion.Type = AssertionBodyContains ->
              BodyContainsValidate(result, assertion)

\* Engine.Validate: every assertion is evaluated, failures appended in order
RECURSIVE Validate(_, _)
Validate(result, assertions) ==
  IF assertions = <<>>
  THEN <<>>
  ELSE ValidateOne(result, Head(assertions)) \o Validate(result, Tail(assertions))

(* ------------------------------- executor ------------------------------ *)
\* Executor.Execute: the result it returns for an outcome of the request.
\* The error return is always nil; Success is never set to true here.
Execute(t, outcome) ==
  IF outcome.kind = "error"
  THEN [Test |-> t, Success |-> FALSE, StatusCode |-> 0,
        Error |-> "request failed", Failures |-> <<>>]
  ELSE [Test |-> t, Success |-> FALSE, StatusCode |-> outcome.status,
        Error |-> "nil", Failures |-> <<>>]

\* the server of the retry benchmark: "attempts++; if attempts%3 == 0" it
\* answers 200, otherwise 500
BenchmarkServer(request) ==
  IF request % 3 = 0 THEN StatusOK ELSE StatusInternalServerError

\* the outcomes client.Do can have for the request-th request of the run:
\* with a context that is already cancelled the request fails; a context
\* cancelled meanwhile, or a network that fails on its own, can make it
\* fail; otherwise the server answers (any status, or the benchmark
\* server's)
PossibleOutcomes(cancelledAtStart, cancelledNow, network, request) ==
  IF cancelledAtStart
  THEN {o \in Outcomes : o.kind = "error"}
  ELSE {o \in Outcomes :
          /\ o.kind = "error" => (cancelledNow \/ network = "flaky")
          /\ (o.kind = "response" /\ network = "benchmark") =>
               o.status = BenchmarkServer(request)}

(* ------------------------------- durations ----------------------------- *)
\* time.Duration is an int64 count of nanoseconds: modelled as its 8 bytes,
\* least significant first, in two's complement, so that arithmetic wraps
\* as it does in the program
RECURSIVE ToBytes(_, _)
ToBytes(n, k) ==
  IF k = 0 THEN <<>> ELSE <<n % 256>> \o ToBytes(n \div 256, k - 1)

\* the int64 of a small non-negative integer
Int64(n) == ToBytes(n, 8)

\* sum of the byte products x[i] * y[j] that land in byte k of x * y
RECURSIVE Column(_, _, _, _)
Column(x, y, k, i) ==
  IF i > k THEN 0 ELSE x[i] * y[k + 1 - i] + Column(x, y, k, i + 1)

RECURSIVE Propagate(_, _, _, _)
Propagate(x, y, k, carry) ==
  IF k > 8 THEN <<>>
  ELSE LET sum == Column(x, y, k, 1) + carry
       IN  <<sum % 256>> \o Propagate(x, y, k + 1, sum \div 256)

\* x * y on int64: the low 64 bits of the product
Mul64(x, y) == Propagate(x, y, 1, 0)

\* "1 << uint(attempt)" on a 64-bit int: a single bit, or 0 when the shift
\* count is 64 or more (a negative attempt converts to a huge uint)
Shl1(attempt) ==
  [i \in 1..8 |->
     IF attempt >= 0 /\ attempt < 64 /\ attempt \div 8 = i - 1
     THEN 2 ^ (attempt % 8)
     ELSE 0]

Millisecond == Int64(1000000)
Second == Int64(1000000000)

(* -------------------------------- retry -------------------------------- *)
\* variant: any status is retried once a list is configured
shouldRetryAnyStatus(statusCode, retryOnStatus) == Len(retryOnStatus) > 0

shouldRetry(statusCode, retryOnStatus) ==
  IF Len(retryOnStatus) = 0
  THEN FALSE
  ELSE \E i \in 1..Len(retryOnStatus) : retryOnStatus[i] = statusCode

\* variant: the exponential backoff starts at twice the initial delay
calculateDelayNextAttempt(attempt, initialDelay, backoffType) ==
  LET d == IF initialDelay = Int64(0) THEN Second ELSE initialDelay
  IN  IF backoffType = "linear"
      THEN Mul64(d, Int64(attempt + 1))
      ELSE Mul64(d, Shl1(attempt + 1))

\* variant: the linear backoff multiplies by the attempt index
calculateDelayLinearByAttempt(attempt, initialDelay, backoffType) ==
  LET d == IF initialDelay = Int64(0) THEN Second ELSE initialDelay
  IN  IF backoffType = "linear"
      THEN Mul64(d, Int64(attempt))
      ELSE Mul64(d, Shl1(attempt))

calculateDelay(attempt, initialDelay, backoffType) ==
  LET d == IF initialDelay = Int64(0) THEN Second ELSE initialDelay
  IN  CASE backoffType = "exponential" -> Mul64(d, Shl1(attempt))
        [] backoffType = "linear" -> Mul64(d, Int64(attempt + 1))
        [] OTHER -> Mul64(d, Shl1(attempt))

\* variant: one more attempt than the original one plus the retries
maxAttemptsOneMore(test) == test.Retries + 2

maxAttempts(test) == test.Retries + 1

\* variant: without a list only transport errors are retried
shouldRetryRequestOnErrorOnly(result, test) ==
  IF Len(test.RetryOnStatus) > 0
  THEN shouldRetry(result.StatusCode, test.RetryOnStatus)
  ELSE result.Error # "nil"

\* shouldRetryRequest of ExecuteWithRetry (result is never nil)
shouldRetryRequest(result, test) ==
  IF Len(test.RetryOnStatus) > 0
  THEN shouldRetry(result.StatusCode, test.RetryOnStatus)
  ELSE ~result.Success

\* variant: the loop sleeps after its last attempt too
afterAttemptAlwaysSleeping(result, test, a) ==
  IF result.Success THEN "return"
  ELSE IF ~shouldRetryRequest(result, test) THEN "return"
  ELSE "sleep"

\* what the body of the retry loop does after Execute returned result with a
\* nil error in attempt a: "return" (success, last attempt or not eligible)
\* or "sleep"
afterAttempt(result, test, a) ==
  IF result.Success THEN "return"
  ELSE IF a = maxAttempts(test) - 1 THEN "return"
  ELSE IF ~shouldRetryRequest(result, test) THEN "return"
  ELSE "sleep"

(* ------------------------ result post-processing ----------------------- *)
\* "result.Failures = failures; result.Success = len(failures) == 0"
withFailures(result, failures) ==
  [result EXCEPT !.Failures = failures, !.Success = (Len(failures) = 0)]

\* variant: the result of ExecuteWithRetry is recorded as it is
runAssertionsSkipped(result, test) == result

\* variant: the failures are stored but Success is left as Execute set it
runAssertionsKeepingSuccess(result, test) ==
  IF result.Error = "nil"
  THEN [result EXCEPT !.Failures = Validate(result, test.Assertions)]
  ELSE result

\* "Run assertions if no error occurred" (Run and the workers of RunParallel)
runAssertions(result, test) ==
  IF result.Error = "nil"
  THEN withFailures(result, Validate(result, test.Assertions))
  ELSE result

\* "Create error result" of the worker when ExecuteWithRetry returned an error
errorResult(t, err) ==
  [Test |-> t, Success |-> FALSE, StatusCode |-> 0, Error |-> err,
   Failures |-> <<>>]

\* variant: the observer counts a test twice
IncrementTwice(current) == current + 2

\* Progress.Increment: "p.current++" under the mutex
Increment(current) == current + 1

\* "Calculate stats" and the SuiteResult literal of Run / RunParallel
RECURSIVE countPassed(_)
countPassed(rs) ==
  IF rs = <<>> THEN 0
  ELSE (IF Head(rs).Success THEN 1 ELSE 0) + countPassed(Tail(rs))

\* variant: only results with assertion failures count as failed
RECURSIVE countFailedByFailures(_)
countFailedByFailures(rs) ==
  IF rs = <<>> THEN 0
  ELSE (IF Head(rs).Failures # <<>> THEN 1 ELSE 0)
         + countFailedByFailures(Tail(rs))

RECURSIVE countFailed(_)
countFailed(rs) ==
  IF rs = <<>> THEN 0
  ELSE (IF Head(rs).Success THEN 0 ELSE 1) + countFailed(Tail(rs))

suiteResult(rs) ==
  [Results |-> rs, TotalTests |-> Len(rs), PassedTests |-> countPassed(rs),
   FailedTests |-> countFailed(rs)]


(* ------------------------------ initial state -------------------------- *)
StatusAssertion(n) == [Type |-> AssertionStatus, Value |-> Itoa(n)]

\* tests of the sequential suites
SeqTests ==
  [Retries : 0..MaxSeqRetries,
   RetryOnStatus : {<<>>, <<StatusInternalServerError>>},
   RetryDelay : {Int64(0)}, RetryBackoff : {""},
   Assertions : {<<StatusAssertion(StatusOK)>>}]

\* tests of the parallel suites
ParTests ==
  [Retries : 0..MaxParRetries,
   RetryOnStatus : {<<>>},
   RetryDelay : {Int64(0)}, RetryBackoff : {""},
   Assertions : {<<StatusAssertion(StatusOK)>>}]

RECURSIVE SeqsUpTo(_, _)
SeqsUpTo(S, n) ==
  IF n = 0 THEN {<<>>}
  ELSE LET shorter == SeqsUpTo(S, n - 1)
       IN  shorter \cup {Append(q, x) : q \in shorter, x \in S}

Repeat(t, n) == [i \in 1..n |-> t]

\* Run on the suites of up to MaxSeqTests tests
SeqConfigs ==
  [mode : {"seq"}, variant : {"bounded"}, failFast : BOOLEAN,
   concurrency : {0}, network : {"flaky"},
   tests : SeqsUpTo(SeqTests, MaxSeqTests)]

\* RunParallel on suites that repeat one test (as the integration tests
\* do), with at most MaxParWork executions x workers
ParConfigs ==
  {c \in [mode : {"par"}, variant : {"bounded", "simple"},
          failFast : BOOLEAN, concurrency : 1..MaxConc,
          network : {"reliable"},
          tests : {Repeat(t, n) : n \in 0..MaxParTests, t \in ParTests}] :
     \A i \in 1..Len(c.tests) :
        Len(c.tests) * (c.tests[i].Retries + 1) * c.concurrency <= MaxParWork}

\* the fail-fast integration test: 5 tests without retries, concurrency 2
FailFastConfig ==
  [mode |-> "par", variant |-> "bounded", failFast |-> TRUE,
   concurrency |-> FailFastConcurrency,
   network |-> "reliable",
   tests |-> Repeat([Retries |-> 0, RetryOnStatus |-> <<>>,
                     RetryDelay |-> Int64(0), RetryBackoff |-> "",
                     Assertions |-> <<StatusAssertion(StatusOK)>>],
                    FailFastTests)]

\* RunParallel called with a concurrency that is not positive, on suites of
\* up to MaxDefaultTests tests without retries
DefaultConcurrencyConfigs ==
  [mode : {"par"}, variant : {"bounded", "simple"}, failFast : BOOLEAN,
   concurrency : {0, -1}, network : {"reliable"},
   tests : {Repeat(t, n) : n \in 1..MaxDefaultTests,
                           t \in {u \in ParTests : u.Retries = 0}}]

\* status codes of the retry scenario: RetryOnStatus = [500, 502, 503]
RetryStatuses == <<StatusInternalServerError, 502, 503>>

\* tests of the retry runs: every retry setting of models.Test, a negative
\* Retries included (the YAML value is not validated)
RetryTests ==
  [Retries : -1..MaxRetries,
   RetryOnStatus : {<<>>, RetryStatuses},
   RetryDelay : {Int64(0), Second, Mul64(Int64(500), Millisecond)},
   RetryBackoff : {"", "exponential", "linear"},
   Assertions : {<<StatusAssertion(StatusOK)>>}]

\* Run on a suite of one test with retries
RetryConfigs ==
  [mode : {"seq"}, variant : {"bounded"}, failFast : {FALSE},
   concurrency : {0}, network : {"flaky"},
   tests : {<<t>> : t \in RetryTests}]

\* the retry benchmark: one test with Retries = 2, RetryDelay = 10ms and
\* RetryOnStatus = [500, 502, 503] against the benchmark server
RetryBenchmarkConfig ==
  [mode |-> "seq", variant |-> "bounded", failFast |-> FALSE,
   concurrency |-> 0, network |-> "benchmark",
   tests |-> << [Retries |-> 2, RetryOnStatus |-> RetryStatuses,
                 RetryDelay |-> Mul64(Int64(10), Millisecond),
                 RetryBackoff |-> "",
                 Assertions |-> <<StatusAssertion(StatusOK)>>] >>]

InitWith(configs) ==
  /\ cfg \in configs
  /\ ctxDone = FALSE
  /\ runCtxDone = FALSE
  /\ procs = IF cfg.mode = "seq"
             THEN SetToBag({Idle("run", "loop")})
             ELSE [p \in {Idle("worker", "dequeue")} |-> concurrency]
  /\ jobs = <<>>
  /\ jobsClosed = FALSE
  /\ results = <<>>
  /\ resultsClosed = FALSE
  /\ feederIdx = 1
  /\ feederDone = (cfg.mode = "seq")
  /\ mainPc = IF cfg.mode = "seq" THEN "run" ELSE "collect"
  /\ testResults = <<>>
  /\ ret = NoReturn
  /\ progress = 0
  /\ trigger = NilResult
  /\ validation = NoValidation

Init ==
  InitWith(SeqConfigs \cup ParConfigs \cup {FailFastConfig} \cup RetryConfigs
             \cup {RetryBenchmarkConfig} \cup DefaultConcurrencyConfigs)

(* --------------------------- ExecuteWithRetry --------------------------- *)
\* entry of ExecuteWithRetry for test t, up to the first call of Execute
CallExecuteWithRetry(p, t) ==
  [p EXCEPT !.cur = t, !.attempt = 0, !.lastResult = NilResult,
            !.returned = NoCall, !.execs = 1, !.sleeps = 0,
            !.delays = <<>>,
            !.ctxAtStart = CtxDone(p), !.pc = "executing"]

\* variant: Run records the error as a failed result, as the workers do
AfterCallNoAbort(p, result, err) ==
  [p EXCEPT !.returned = [result |-> result, err |-> err],
            !.res = runAssertions(IF err # "nil"
                                  THEN [Test |-> p.cur, Success |-> FALSE,
                                        StatusCode |-> 0, Error |-> err,
                                        Failures |-> <<>>]
                                  ELSE result, Tests[p.cur]),
            !.pc = IF p.role = "run" THEN "loop" ELSE "send"]

\* ExecuteWithRetry returned (result, err) to its caller, which goes on to
\* its next blocking point: Run aborts on an error and otherwise runs the
\* assertions; a worker builds the result it is going to send
AfterCall(p, result, err) ==
  LET test == Tests[p.cur]
      q == [p EXCEPT !.returned = [result |-> result, err |-> err]]
  IN  IF p.role = "run"
      THEN IF err # "nil"
           THEN [q EXCEPT !.pc = "done"]
           ELSE [q EXCEPT !.res = runAssertions(result, test), !.pc = "loop"]
      ELSE [q EXCEPT !.res = runAssertions(IF err # "nil"
                                           THEN errorResult(p.cur, err)
                                           ELSE result, test),
                     !.pc = "send"]

\* what Run does with the return of ExecuteWithRetry: "return nil, err", or
\* append the result and Increment the progress; a worker touches none of it
RunEffects(p, q) ==
  IF p.role = "run"
  THEN IF q.pc = "done"
       THEN /\ ret' = [done |-> TRUE, result |-> "nil", err |-> q.returned.err]
            /\ mainPc' = "returned"
            /\ UNCHANGED <<testResults, progress>>
       ELSE /\ testResults' = Append(testResults, q.res)
            /\ progress' = Increment(progress)
            /\ UNCHANGED <<ret, mainPc>>
  ELSE UNCHANGED runVars

\* Execute returns: the rest of the loop body of ExecuteWithRetry (or the
\* direct return when maxAttempts <= 1); on its way to the select of the
\* backoff, ctxAtStart records whether ctx is cancelled already
ExecuteReturns(p) ==
  /\ p.pc = "executing"
  /\ \E outcome \in PossibleOutcomes(p.ctxAtStart, CtxDone(p), cfg.network,
                                       p.execs) :
       LET test == Tests[p.cur]
           result == Execute(p.cur, outcome)
           q == IF maxAttempts(test) <= 1
                THEN AfterCall(p, result, "nil")
                ELSE IF afterAttempt(result, test, p.attempt) = "return"
                THEN AfterCall([p EXCEPT !.lastResult = result], result, "nil")
                ELSE [p EXCEPT !.lastResult = result, !.sleeps = @ + 1,
                               !.delays = Append(@, calculateDelay(p.attempt,
                                            test.RetryDelay, test.RetryBackoff)),
                               !.ctxAtStart = CtxDone(p),
                               !.pc = "sleep"]
       IN  /\ Becomes(p, q)
           /\ IF q.pc = "sleep" THEN UNCHANGED runVars ELSE RunEffects(p, q)
  /\ UNCHANGED <<cfg, validation, ctxDone, runCtxDone, chanVars, trigger>>

\* variant: the timer can win the select at any time
timerAlwaysFires(p) == TRUE

\* the timer of the backoff can win the select: it fires while ctx is not
\* cancelled, or both channels were ready when the select was entered; a
\* goroutine blocked in the select is woken by the first of the two events
timerCanFire(p) == ~CtxDone(p) \/ p.ctxAtStart

\* "case <-time.After(delay)": next iteration, Execute is called again
SleepElapsed(p) ==
  /\ p.pc = "sleep"
  /\ timerCanFire(p)
  /\ Becomes(p, [p EXCEPT !.attempt = @ + 1, !.execs = @ + 1,
                          !.ctxAtStart = CtxDone(p), !.pc = "executing"])
  /\ UNCHANGED <<cfg, validation, ctxDone, runCtxDone, chanVars, runVars, trigger>>

\* "case <-ctx.Done(): return lastResult, ctx.Err()"
SleepCancelled(p) ==
  /\ p.pc = "sleep"
  /\ CtxDone(p)
  /\ LET q == AfterCall(p, p.lastResult, "context canceled")
     IN  Becomes(p, q) /\ RunEffects(p, q)
  /\ UNCHANGED <<cfg, validation, ctxDone, runCtxDone, chanVars, trigger>>

(* ------------------------------- Runner.Run ----------------------------- *)
\* variant: the loop also ends after a failed test
loopDoneOrFailed(p) == p.cur = NumTests \/ (p.cur > 0 /\ ~p.res.Success)

\* "for _, test := range suite.Tests" has gone through every test
loopDone(p) == p.cur = NumTests

\* next iteration of "for _, test := range suite.Tests"
RunNextTest(p) ==
  /\ p.role = "run"
  /\ p.pc = "loop"
  /\ ~loopDone(p)
  /\ Becomes(p, CallExecuteWithRetry(p, p.cur + 1))
  /\ UNCHANGED <<cfg, validation, ctxDone, runCtxDone, chanVars, runVars, trigger>>

\* the loop is over: stats and "return suiteResult, nil"
RunReturn(p) ==
  /\ p.role = "run"
  /\ p.pc = "loop"
  /\ loopDone(p)
  /\ ret' = [done |-> TRUE, result |-> suiteResult(testResults), err |-> "nil"]
  /\ mainPc' = "returned"
  /\ Becomes(p, [p EXCEPT !.pc = "done"])
  /\ UNCHANGED <<cfg, validation, ctxDone, runCtxDone, chanVars, testResults, progress,
                 trigger>>

\* the caller's context is cancelled (SIGINT/SIGTERM in main) before the run
\* has returned; runCtx is derived from it
CallerCancel ==
  /\ ~ctxDone
  /\ ~ret.done
  /\ ctxDone' = TRUE
  /\ runCtxDone' = TRUE
  /\ UNCHANGED <<cfg, validation, procs, chanVars, runVars, trigger>>

(* --------------------------- Runner.RunParallel ------------------------- *)
\* variant: the worker does not look at runCtx before it starts a test
cancelCheckOmitted == FALSE

\* "select { case <-runCtx.Done(): return; default: }" takes the first case
cancelledBeforeStart == runCtxDone

\* worker: "for test := range jobs" receives a job, or ends when the channel
\* is closed and empty (deferred wg.Done); with a job it goes through
\* "select { case <-runCtx.Done(): return; default: }" and calls
\* ExecuteWithRetry(runCtx, test)
WorkerDequeue(w) ==
  /\ w.role = "worker"
  /\ w.pc = "dequeue"
  /\ \/ /\ jobs # <<>>
        /\ jobs' = Tail(jobs)
        /\ Becomes(w, IF cancelledBeforeStart
                      THEN [w EXCEPT !.pc = "exit"]
                      ELSE CallExecuteWithRetry(w, Head(jobs)))
     \/ /\ jobs = <<>>
        /\ jobsClosed
        /\ Becomes(w, [w EXCEPT !.pc = "exit"])
        /\ UNCHANGED jobs
  /\ UNCHANGED <<cfg, validation, ctxDone, runCtxDone, jobsClosed, results, resultsClosed,
                 feederIdx, feederDone, runVars, trigger>>

\* worker: "select { case results <- *result: ...; case <-runCtx.Done(): return }"
WorkerSend(w) ==
  /\ w.role = "worker"
  /\ w.pc = "send"
  /\ \/ /\ Len(results) < bufferSize
        /\ results' = Append(results, w.res)
        /\ Becomes(w, [w EXCEPT !.pc = "sent"])
     \/ /\ runCtxDone
        /\ Becomes(w, Idle("worker", "exit"))
        /\ UNCHANGED results
  /\ UNCHANGED <<cfg, validation, ctxDone, runCtxDone, jobs, jobsClosed, resultsClosed,
                 feederIdx, feederDone, runVars, trigger>>

\* variant: only results with an Error cancel
shouldCancelOnError(w) == cfg.failFast /\ w.res.Error # "nil"

\* "if failFast && !result.Success"
shouldCancel(w) == cfg.failFast /\ ~w.res.Success

\* worker, after its send: progress.Increment() and, with fail-fast and a
\* failed result, cancel(); then back to the head of the loop
WorkerAfterSend(w) ==
  /\ w.role = "worker"
  /\ w.pc = "sent"
  /\ progress' = Increment(progress)
  /\ IF shouldCancel(w)
     THEN /\ runCtxDone' = TRUE
          /\ trigger' = IF runCtxDone THEN trigger ELSE w.res
     ELSE UNCHANGED <<runCtxDone, trigger>>
  /\ Becomes(w, Idle("worker", "dequeue"))
  /\ UNCHANGED <<cfg, validation, ctxDone, chanVars, mainPc, testResults, ret>>

\* feeder: "case jobs <- test"
FeederSend ==
  /\ ~feederDone
  /\ feederIdx <= NumTests
  /\ Len(jobs) < bufferSize
  /\ jobs' = Append(jobs, feederIdx)
  /\ feederIdx' = feederIdx + 1
  /\ UNCHANGED <<cfg, validation, ctxDone, runCtxDone, procs, jobsClosed, results,
                 resultsClosed, feederDone, runVars, trigger>>

\* variant: the feeder returns at cancellation without closing jobs
jobsLeftOpen == FALSE

\* "close(jobs)" of the feeder's cancellation case
jobsClosedOnCancel == TRUE

\* feeder: "case <-runCtx.Done(): close(jobs); return"
FeederCancelled ==
  /\ ~feederDone
  /\ feederIdx <= NumTests
  /\ runCtxDone
  /\ jobsClosed' = jobsClosedOnCancel
  /\ feederDone' = TRUE
  /\ UNCHANGED <<cfg, validation, ctxDone, runCtxDone, procs, jobs, results, resultsClosed,
                 feederIdx, runVars, trigger>>

\* feeder: the loop is over, "close(jobs)"
FeederClose ==
  /\ ~feederDone
  /\ feederIdx > NumTests
  /\ jobsClosed' = TRUE
  /\ feederDone' = TRUE
  /\ UNCHANGED <<cfg, validation, ctxDone, runCtxDone, procs, jobs, results, resultsClosed,
                 feederIdx, runVars, trigger>>

\* "go func() { wg.Wait(); close(results) }()"
CloseResults ==
  /\ cfg.mode = "par"
  /\ ~resultsClosed
  /\ \A w \in Workers : w.pc = "exit"
  /\ resultsClosed' = TRUE
  /\ UNCHANGED <<cfg, validation, ctxDone, runCtxDone, procs, jobs, jobsClosed, results,
                 feederIdx, feederDone, runVars, trigger>>

\* "done:" stats, "return suiteResult, nil"; the deferred cancel() runs
ParallelReturn ==
  /\ ret' = [done |-> TRUE, result |-> suiteResult(testResults), err |-> "nil"]
  /\ mainPc' = "returned"
  /\ runCtxDone' = TRUE

\* variant: the collector stops as soon as the channel is empty
resultsEmpty == results = <<>>

\* variant: the collector returns at cancellation without draining
drainSkipped == FALSE

\* a receive from results yields !ok: the channel is closed and empty
resultsDrained == results = <<>> /\ resultsClosed

\* the non-blocking receive of the drain loop gets a result
drainReceives == results # <<>>

\* collector: "case result, ok := <-results" of the outer select
CollectorReceive ==
  /\ mainPc = "collect"
  /\ \/ /\ results # <<>>
        /\ testResults' = Append(testResults, Head(results))
        /\ results' = Tail(results)
        /\ UNCHANGED <<mainPc, ret, runCtxDone>>
     \/ /\ resultsDrained
        /\ ParallelReturn
        /\ UNCHANGED <<testResults, results>>
  /\ UNCHANGED <<cfg, validation, ctxDone, procs, jobs, jobsClosed, resultsClosed,
                 feederIdx, feederDone, progress, trigger>>

\* collector (bounded variant; the simple one ranges over results until the
\* channel is closed): "case <-runCtx.Done()" of the outer select; it sleeps 100ms
\* (it is asleep until its first step in "drain")
CollectorCancelled ==
  /\ mainPc = "collect"
  /\ cfg.variant = "bounded"
  /\ runCtxDone
  /\ mainPc' = "drain"
  /\ UNCHANGED <<cfg, validation, ctxDone, runCtxDone, procs, chanVars, testResults, ret,
                 progress, trigger>>

\* collector: one iteration of the drain loop; it stops at the first moment
\* the channel has nothing to give (closed, or "default")
CollectorDrain ==
  /\ mainPc = "drain"
  /\ IF drainReceives
     THEN /\ testResults' = Append(testResults, Head(results))
          /\ results' = Tail(results)
          /\ UNCHANGED <<mainPc, ret, runCtxDone>>
     ELSE /\ ParallelReturn
          /\ UNCHANGED <<testResults, results>>
  /\ UNCHANGED <<cfg, validation, ctxDone, procs, jobs, jobsClosed, resultsClosed,
                 feederIdx, feederDone, progress, trigger>>

(* ----------------------------- specifications --------------------------- *)
Next ==
  \/ \E p \in Procs : ExecuteReturns(p)
  \/ \E p \in Procs : SleepElapsed(p)
  \/ \E p \in Procs : SleepCancelled(p)
  \/ \E p \in Procs : RunNextTest(p)
  \/ \E p \in Procs : RunReturn(p)
  \/ \E w \in Procs : WorkerDequeue(w)
  \/ \E w \in Procs : WorkerSend(w)
  \/ \E w \in Procs : WorkerAfterSend(w)
  \/ FeederSend
  \/ FeederCancelled
  \/ FeederClose
  \/ CloseResults
  \/ CollectorReceive
  \/ CollectorCancelled
  \/ CollectorDrain
  \/ CallerCancel

\* sequential and parallel runs of the bounded suites
Spec == Init /\ [][Next]_vars

\* RunParallel on its own, on the suites of ParConfigs with at most
\* MaxLiveWork executions x workers
LiveConfigs ==
  {c \in ParConfigs :
     \A i \in 1..Len(c.tests) :
        Len(c.tests) * (c.tests[i].Retries + 1) * c.concurrency <= MaxLiveWork}

ParallelInit == InitWith(LiveConfigs)

\* a step of a goroutine of RunParallel, of an HTTP execution or of a timer
ParallelStep ==
  \/ \E p \in Procs : ExecuteReturns(p)
  \/ \E p \in Procs : SleepElapsed(p)
  \/ \E p \in Procs : SleepCancelled(p)
  \/ \E w \in Procs : WorkerDequeue(w)
  \/ \E w \in Procs : WorkerSend(w)
  \/ \E w \in Procs : WorkerAfterSend(w)
  \/ FeederSend
  \/ FeederCancelled
  \/ FeederClose
  \/ CloseResults
  \/ CollectorReceive
  \/ CollectorCancelled
  \/ CollectorDrain

ParallelNext == ParallelStep \/ CallerCancel

\* the Go scheduler runs a goroutine as long as one can run, an HTTP
\* execution returns and a timer fires; the caller may cancel or not
ParallelSpec ==
  ParallelInit /\ [][ParallelNext]_vars /\ WF_vars(ParallelStep)

(* --------------------- calculateDelay on its own ----------------------- *)
\* "maxRetries = 100": the cap of the parser on the retries it hands down
maxRetries == 100

\* calls calculateDelay(attempt, initialDelay, backoffType) for the attempt
\* indices of a test with up to maxRetries retries
DelayInit ==
  /\ cfg \in [mode : {"delay"}, attempt : 0..(maxRetries - 1),
               initialDelay : {Int64(0), Millisecond,
                               Mul64(Int64(500), Millisecond), Second},
               backoffType : {"exponential", "linear", "", "fibonacci"}]
  /\ ctxDone = FALSE
  /\ runCtxDone = FALSE
  /\ procs = EmptyBag
  /\ jobs = <<>>
  /\ jobsClosed = FALSE
  /\ results = <<>>
  /\ resultsClosed = FALSE
  /\ feederIdx = 1
  /\ feederDone = TRUE
  /\ mainPc = "call"
  /\ testResults = <<>>
  /\ ret = NoReturn
  /\ progress = 0
  /\ trigger = NilResult
  /\ validation = NoValidation

CalculateDelayCall ==
  /\ mainPc = "call"
  /\ ret' = [done |-> TRUE,
             delay |-> calculateDelay(cfg.attempt, cfg.initialDelay,
                                      cfg.backoffType)]
  /\ mainPc' = "returned"
  /\ UNCHANGED <<cfg, validation, ctxDone, runCtxDone, procs, chanVars, testResults,
                 progress, trigger>>

DelayNext == CalculateDelayCall

DelaySpec == DelayInit /\ [][DelayNext]_vars

(* ------------------------- Engine.Validate on its own ------------------ *)
\* bounds of the assertion runs
MaxStatus == 599
MaxAssertions == 3

\* values of status assertions: "200", "404", " 201 ", ">= 200 && < 300",
\* ">= 200", "< 300", "== 200 || == 404", "status != 404", "ok"
StatusValues ==
  {<<"2", "0", "0">>,
   <<"4", "0", "4">>,
   <<" ", "2", "0", "1", " ">>,
   <<">", "=", " ", "2", "0", "0", " ", "&", "&", " ", "<", " ", "3", "0", "0">>,
   <<">", "=", " ", "2", "0", "0">>,
   <<"<", " ", "3", "0", "0">>,
   <<"=", "=", " ", "2", "0", "0", " ", "|", "|", " ", "=", "=", " ", "4", "0", "4">>,
   <<"s", "t", "a", "t", "u", "s", " ", "!", "=", " ", "4", "0", "4">>,
   <<"o", "k">>}

\* header names: "X-Id", "x-id", "Missing-Header"
HeaderNames ==
  {<<"X", "-", "I", "d">>,
   <<"x", "-", "i", "d">>,
   <<"M", "i", "s", "s", "i", "n", "g", "-", "H", "e", "a", "d", "e", "r">>}

\* operators of header assertions: contains, ==, !=, >, <, >=, <=
HeaderOperatorNames ==
  {<<"c", "o", "n", "t", "a", "i", "n", "s">>,
   <<"=", "=">>,
   <<"!", "=">>,
   <<">">>,
   <<"<">>,
   <<">", "=">>,
   <<"<", "=">>}

\* expected values of header assertions: "'value'", "50", "9", "''"
HeaderExpectedValues ==
  {<<"'", "v", "a", "l", "u", "e", "'">>,
   <<"5", "0">>,
   <<"9">>,
   <<"'", "'">>}

\* a header assertion "name operator value"
HeaderAssertion(name, operator, value) ==
  [Type |-> AssertionHeader, Value |-> name \o <<" ">> \o operator \o <<" ">> \o value]

\* response headers: none; X-Id with the value "50", with an empty value,
\* with the values "value" and "50"; X-Id next to
\* Content-Type
HeaderMaps ==
  {{},
   {[key |-> <<"X", "-", "I", "d">>, values |-> <<<<"5", "0">>>>]},
   {[key |-> <<"X", "-", "I", "d">>, values |-> << <<>> >>]},
   {[key |-> <<"X", "-", "I", "d">>, values |-> <<<<"v", "a", "l", "u", "e">>, <<"5", "0">>>>]},
   {[key |-> <<"C", "o", "n", "t", "e", "n", "t", "-", "T", "y", "p", "e">>, values |-> <<<<"j", "s", "o", "n">>>>],
    [key |-> <<"X", "-", "I", "d">>, values |-> <<<<"5", "0">>>>]}}

\* one status assertion against every status code up to MaxStatus
StatusRuns ==
  [mode : {"validate"},
   result : [StatusCode : 0..MaxStatus, Headers : {{}}, ResponseBody : {<<>>}],
   assertions : {<<[Type |-> AssertionStatus, Value |-> v]>> : v \in StatusValues}]

\* one header assertion against every header map
HeaderRuns ==
  [mode : {"validate"},
   result : [StatusCode : {StatusOK}, Headers : HeaderMaps, ResponseBody : {<<>>}],
   assertions : {<<HeaderAssertion(n, o, v)>> :
                   n \in HeaderNames, o \in HeaderOperatorNames,
                   v \in HeaderExpectedValues}]

\* assertions of the mixed lists: status "200" and ">= 200 && < 300", body
\* "ok", body_contains "error", header "X-Id == 50", and the type "unknown"
\* with the value "test"
MixedAssertions ==
  {[Type |-> AssertionStatus, Value |-> <<"2", "0", "0">>],
   [Type |-> AssertionStatus, Value |-> <<">", "=", " ", "2", "0", "0", " ", "&", "&", " ", "<", " ", "3", "0", "0">>],
   [Type |-> AssertionBody, Value |-> <<"o", "k">>],
   [Type |-> AssertionBodyContains, Value |-> <<"e", "r", "r", "o", "r">>],
   [Type |-> AssertionHeader, Value |-> <<"X", "-", "I", "d", " ", "=", "=", " ", "5", "0">>],
   [Type |-> "unknown", Value |-> <<"t", "e", "s", "t">>]}

\* lists of up to MaxAssertions assertions against a few responses
MixedRuns ==
  [mode : {"validate"},
   result : [StatusCode : {StatusOK, 404},
             Headers : {{}, {[key |-> <<"X", "-", "I", "d">>, values |-> <<<<"5", "0">>>>]}},
             ResponseBody : {<<"o", "k">>, <<"{", "\"", "e", "r", "r", "o", "r", "\"", ":", "\"", "n", "o", "t", " ", "f", "o", "u", "n", "d", "\"", "}">>}],
   assertions : SeqsUpTo(MixedAssertions, MaxAssertions)]

\* entry of Engine.Validate(result, assertions)
EngineInit ==
  /\ cfg \in StatusRuns \cup HeaderRuns \cup MixedRuns
  /\ ctxDone = FALSE
  /\ runCtxDone = FALSE
  /\ procs = EmptyBag
  /\ jobs = <<>>
  /\ jobsClosed = FALSE
  /\ results = <<>>
  /\ resultsClosed = FALSE
  /\ feederIdx = 1
  /\ feederDone = TRUE
  /\ mainPc = "validate"
  /\ testResults = <<>>
  /\ ret = NoReturn
  /\ progress = 0
  /\ trigger = NilResult
  /\ validation = [i |-> 1, failures |-> NilSlice]

\* variant: the loop ends at the first failure
rangeUntilFailure(i, failures) ==
  i <= Len(cfg.assertions) /\ failures.elems = <<>>

\* "for _, assertion := range assertions" has an assertion left
rangeContinues(i, failures) == i <= Len(cfg.assertions)

\* one iteration of the loop: the failure of an unsupported type or of the
\* validator is appended
ValidateIteration ==
  /\ mainPc = "validate"
  /\ rangeContinues(validation.i, validation.failures)
  /\ LET failure == ValidateOne(cfg.result, cfg.assertions[validation.i])
     IN  validation' =
           [i |-> validation.i + 1,
            failures |-> IF failure = <<>>
                         THEN validation.failures
                         ELSE append(validation.failures, failure[1])]
  /\ UNCHANGED <<cfg, ctxDone, runCtxDone, procs, chanVars, runVars, trigger>>

\* "return failures"
ValidateReturn ==
  /\ mainPc = "validate"
  /\ ~rangeContinues(validation.i, validation.failures)
  /\ ret' = [done |-> TRUE, failures |-> validation.failures]
  /\ mainPc' = "returned"
  /\ UNCHANGED <<cfg, ctxDone, runCtxDone, procs, chanVars, testResults,
                 progress, trigger, validation>>

EngineNext == ValidateIteration \/ ValidateReturn

EngineSpec == EngineInit /\ [][EngineNext]_vars

(* ------------------------------- properties ---------------------------- *)
\* Run / RunParallel returned a SuiteResult
Returned == ret.done /\ ret.err = "nil"

SeqRun == cfg.mode = "seq"
ParRun == cfg.mode = "par"

\* the goroutines that are inside ExecuteWithRetry's retry loop, or just
\* left it, for a test with retries
Retrying == {p \in Procs : p.cur > 0 /\ Tests[p.cur].Retries >= 1}

\* an attempt's result is fully successful: no execution error and every
\* assertion of the test satisfied
FullySuccessful(result, test) ==
  result.Error = "nil" /\ Validate(result, test.Assertions) = <<>>

InList(code, list) == \E i \in 1..Len(list) : list[i] = code

\* C1: the returned SuiteResult has TotalTests = len(Results) and
\* PassedTests + FailedTests = TotalTests, PassedTests being the number of
\* results with Success = true (Run and RunParallel, every interleaving)
C1_Totals ==
  Returned =>
    LET r == ret.result IN
    /\ r.TotalTests = Len(r.Results)
    /\ r.PassedTests + r.FailedTests = r.TotalTests
    /\ r.PassedTests = Cardinality({i \in 1..Len(r.Results) : r.Results[i].Success})

\* a truncated fail-fast parallel result with a passed test and a failed one
\* that carries an Error
C1_Witness ==
  /\ Returned /\ ParRun /\ cfg.failFast
  /\ ret.result.TotalTests < NumTests
  /\ ret.result.PassedTests >= 1
  /\ \E i \in 1..Len(ret.result.Results) : ret.result.Results[i].Error # "nil"

\* C2: every TestResult of a returned SuiteResult has
\* Success = (len(Failures) = 0 /\ Error = nil)
C2_SuccessFlag ==
  Returned =>
    \A i \in 1..Len(ret.result.Results) :
      LET r == ret.result.Results[i] IN
      r.Success = (Len(r.Failures) = 0 /\ r.Error = "nil")

\* a returned result list with a pass, an assertion failure and a
\* cancellation during backoff
C2_Witness ==
  /\ Returned
  /\ \E i, j, k \in 1..Len(ret.result.Results) :
       /\ ret.result.Results[i].Success
       /\ ret.result.Results[j].Failures # <<>>
       /\ ret.result.Results[k].Error = "context canceled"

\* C3: RunParallel reports no test twice, and without fail-fast
\* cancellation and caller cancellation it reports every test exactly once
C3_Multiset ==
  (Returned /\ ParRun) =>
    LET rs == ret.result.Results IN
    /\ \A i \in 1..Len(rs) : rs[i].Test \in 1..NumTests
    /\ \A i, j \in 1..Len(rs) : i # j => rs[i].Test # rs[j].Test
    /\ (~ctxDone /\ trigger = NilResult) =>
         /\ ret.result.TotalTests = NumTests
         /\ {rs[i].Test : i \in 1..Len(rs)} = 1..NumTests

\* all tests reported without cancellation, out of suite order, fail-fast on
C3_Witness ==
  /\ Returned /\ ParRun /\ cfg.failFast /\ ~ctxDone /\ trigger = NilResult
  /\ NumTests >= 3
  /\ ret.result.TotalTests = NumTests
  /\ ret.result.Results[1].Test # 1

C5_TriggerCollected ==
  (Returned /\ ParRun /\ trigger # NilResult) =>
    /\ ret.result.FailedTests >= 1
    /\ \E i \in 1..Len(ret.result.Results) : ret.result.Results[i] = trigger

\* the collector went through its drain after a worker cancelled, other
\* results were lost
C5_Witness ==
  /\ Returned /\ ParRun /\ cfg.variant = "bounded" /\ trigger # NilResult
  /\ ~ctxDone
  /\ ret.result.TotalTests < NumTests
  /\ \E w \in Workers : w.pc = "send"

\* C6 as stated: 5 tests, concurrency 2, fail-fast; when the first completed
\* test failed the returned TotalTests is below 5
C6_Original ==
  (Returned /\ cfg = FailFastConfig /\ ret.result.TotalTests >= 1
     /\ ~ret.result.Results[1].Success)
    => ret.result.TotalTests < FailFastTests

\* C6 amended: with fail-fast, when every reported test failed, at most one
\* result per worker is reported; in the 5-test, concurrency-2 scenario that
\* is fewer than 5
C6_AllFailed ==
  (Returned /\ ParRun /\ cfg.failFast
     /\ \A i \in 1..Len(ret.result.Results) : ~ret.result.Results[i].Success)
    => /\ ret.result.TotalTests <= concurrency
       /\ cfg = FailFastConfig => ret.result.TotalTests < FailFastTests

\* both workers of the scenario reported a failure
C6_Witness ==
  /\ Returned /\ cfg = FailFastConfig
  /\ ret.result.TotalTests = FailFastConcurrency
  /\ \A i \in 1..Len(ret.result.Results) : ~ret.result.Results[i].Success

\* C7 as stated: with fail-fast requested and parallel mode off, no test
\* after the first failing one is executed or reported
C7_SequentialFailFast ==
  (SeqRun /\ cfg.failFast) =>
    \A i \in 1..Len(testResults) :
      ~testResults[i].Success =>
        /\ Len(testResults) = i
        /\ \A p \in Procs : p.cur <= i

\* C8 as stated: with Retries >= 1, no backoff sleep and no further
\* execution follows a fully successful attempt
C8_SuccessEndsLoop ==
  \A p \in Retrying :
    (p.pc = "sleep" \/ (p.pc = "executing" /\ p.attempt > 0)) =>
      ~FullySuccessful(p.lastResult, Tests[p.cur])

C11_AssertionsNeverRetry ==
  \A p \in Procs :
    (p.cur > 0 /\ p.lastResult.Error = "nil"
       /\ (p.pc = "sleep" \/ (p.pc = "executing" /\ p.attempt > 0))) =>
      InList(p.lastResult.StatusCode, Tests[p.cur].RetryOnStatus)

\* the goroutines that have called ExecuteWithRetry for a test
Calling == {p \in Procs : p.cur > 0}

\* the call of ExecuteWithRetry that p made has returned
CallReturned(p) == p.returned # NoCall

\* C12 as stated: at most Retries + 1 executions; with Retries <= 0 exactly
\* one execution, no sleep, and the execution's result and error returned
C12_Original ==
  \A p \in Calling :
    LET test == Tests[p.cur] IN
    /\ p.execs <= test.Retries + 1
    /\ test.Retries <= 0 =>
         /\ p.execs = 1 /\ p.sleeps = 0
         /\ CallReturned(p) =>
              (p.returned.err = "nil" /\ p.returned.result.Test = p.cur)

\* C12 amended: at most max(Retries, 0) + 1 executions; with Retries <= 0
\* exactly one execution, no sleep, no use of the retry loop, and the
\* result of that execution returned with its nil error
C12_AttemptBound ==
  \A p \in Calling :
    LET test == Tests[p.cur] IN
    /\ p.execs <= (IF test.Retries > 0 THEN test.Retries ELSE 0) + 1
    /\ test.Retries <= 0 =>
         /\ p.execs = 1 /\ p.sleeps = 0 /\ p.lastResult = NilResult
         /\ CallReturned(p) =>
              /\ p.returned.err = "nil"
              /\ \E o \in Outcomes : p.returned.result = Execute(p.cur, o)

\* a test with a negative Retries was executed once and its 500 returned
C12_Witness ==
  \E p \in Calling :
    /\ Tests[p.cur].Retries < 0
    /\ CallReturned(p)
    /\ p.execs = 1
    /\ p.returned.result.StatusCode = StatusInternalServerError

\* C13: with Retries = 2 and RetryOnStatus = [500, 502, 503], when the
\* first two executions are answered 500 and the third 200, the run makes
\* exactly 3 executions and 2 backoff sleeps, and the recorded result of the
\* test has Success = true
C13_RetryScenario ==
  (cfg = RetryBenchmarkConfig /\ ~ctxDone) =>
    /\ \A p \in Calling :
         /\ p.pc = "executing" => p.execs - 1 = p.sleeps
         /\ p.pc = "sleep" =>
              p.lastResult.StatusCode = StatusInternalServerError
         /\ CallReturned(p) =>
              /\ p.returned.err = "nil"
              /\ p.returned.result.StatusCode = StatusOK
              /\ p.execs = 3
              /\ p.sleeps = 2
              /\ testResults = <<p.res>>
    /\ ret.done =>
         /\ Returned
         /\ ret.result.TotalTests = 1
         /\ ret.result.Results[1].Success
         /\ \E p \in Calling : p.execs = 3 /\ p.sleeps = 2

\* the run of the benchmark suite returned with its test passed
C13_Witness ==
  /\ cfg = RetryBenchmarkConfig /\ ~ctxDone
  /\ Returned
  /\ ret.result.PassedTests = 1
  /\ \E p \in Calling : p.execs = 3 /\ p.sleeps = 2

\* p is blocked in the select of its backoff and ctx was cancelled after it
\* got there
CancelledInSleep(p) == p.pc = "sleep" /\ ~p.ctxAtStart /\ CtxDone(p)

\* C14: when ctx is cancelled while ExecuteWithRetry is in a backoff sleep,
\* its next step is the return of the last executed attempt's result
\* together with ctx.Err(), with no further execution of the test
C14_SleepCancelled ==
  [][\A p \in Procs :
       (CancelledInSleep(p) /\ CopiesIn(p, procs') < CopiesIn(p, procs)) =>
         /\ p.lastResult.Test = p.cur
         /\ \E q \in BagToSet(procs') :
              /\ CopiesIn(q, procs') > CopiesIn(q, procs)
              /\ q.cur = p.cur
              /\ q.returned = [result |-> p.lastResult, err |-> "context canceled"]
              /\ q.execs = p.execs
              /\ q.pc \notin {"executing", "sleep"}]_vars

\* a backoff after a 500 answer was cut short by a cancellation that came
\* during the sleep
C14_Witness ==
  \E p \in Calling :
    /\ p.returned.err = "context canceled"
    /\ ~p.ctxAtStart
    /\ p.returned.result.StatusCode = StatusInternalServerError

\* C15 as stated: a cancellation of the caller's context is never reported
\* as an error: Run and RunParallel return a nil error and a SuiteResult
C15_CancelNotAnError ==
  (ret.done /\ ctxDone) => ret.err = "nil"

\* C16 as stated: when ExecuteWithRetry returned a non-nil error for some
\* test, Run and RunParallel return (nil, error) and no SuiteResult
C16_Original ==
  Returned =>
    \A i \in 1..Len(ret.result.Results) :
      ret.result.Results[i].Error # "context canceled"

\* C16 amended: on a non-nil error of ExecuteWithRetry, Run returns
\* (nil, error) at once, with no result for that test and no later test
\* executed; a worker of RunParallel turns the error into a failed result
\* for that test, and RunParallel always returns a SuiteResult and nil
C16_ErrorHandling ==
  /\ \A p \in Calling :
       (CallReturned(p) /\ p.returned.err # "nil") =>
         IF p.role = "run"
         THEN /\ p.pc = "done"
              /\ ret = [done |-> TRUE, result |-> "nil", err |-> p.returned.err]
              /\ Len(testResults) = p.cur - 1
         ELSE /\ p.res.Test = p.cur
              /\ p.res.Error = p.returned.err
              /\ ~p.res.Success
              /\ p.res.Failures = <<>>
  /\ (ParRun /\ ret.done) => ret.err = "nil"
  /\ (SeqRun /\ ret.done /\ ret.err # "nil") =>
       \E p \in Calling : p.role = "run" /\ p.returned.err = ret.err

\* a SuiteResult of RunParallel that holds the error of a cancelled backoff
\* as a failed result, next to a passed test
C16_Witness ==
  /\ Returned /\ ParRun
  /\ ret.result.PassedTests >= 1
  /\ \E i \in 1..Len(ret.result.Results) :
       ret.result.Results[i].Error = "context canceled"

C18_BackoffDelays ==
  \A p \in Calling :
    LET test == Tests[p.cur] IN
    /\ Len(p.delays) = p.sleeps
    /\ p.pc = "sleep" =>
         \A k \in 1..Len(p.delays) :
           p.delays[k] = calculateDelay(k - 1, test.RetryDelay, test.RetryBackoff)
    /\ (test.Retries = 2 /\ test.RetryBackoff = "exponential"
          /\ test.RetryDelay = Second /\ p.execs = 3) =>
         p.delays = <<Int64(1000000000), Int64(2000000000)>>

\* the three attempts of such a test all failed: two sleeps, of 1s and 2s
C18_Witness ==
  \E p \in Calling :
    /\ Tests[p.cur].Retries = 2
    /\ Tests[p.cur].RetryBackoff = "exponential"
    /\ Tests[p.cur].RetryDelay = Second
    /\ CallReturned(p)
    /\ p.execs = 3
    /\ ~runAssertions(p.returned.result, Tests[p.cur]).Success
    /\ Len(p.delays) = 2

\* natural numbers of any size, as byte strings (least significant first):
\* the product of x and a small m with nothing cut off
RECURSIVE MulExact(_, _, _)
MulExact(x, m, carry) ==
  IF x = <<>>
  THEN IF carry = 0 THEN <<>>
       ELSE <<carry % 256>> \o MulExact(<<>>, m, carry \div 256)
  ELSE LET sum == Head(x) * m + carry
       IN  <<sum % 256>> \o MulExact(Tail(x), m, sum \div 256)

\* x * 2^a with nothing cut off: a \div 8 zero bytes below x, times the
\* remaining power of two
Pow2Exact(x, a) ==
  MulExact([i \in 1..(a \div 8) |-> 0] \o x, 2 ^ (a % 8), 0)

RECURSIVE Trim(_)
Trim(x) ==
  IF x # <<>> /\ x[Len(x)] = 0 THEN Trim(SubSeq(x, 1, Len(x) - 1)) ELSE x

\* the int64 v is not negative and its value is the natural number n
EqualsExact(v, n) == v[8] < 128 /\ Trim(v) = Trim(n)

\* the natural number n is at most the largest int64
FitsInt64(n) == Len(Trim(n)) < 8 \/ (Len(Trim(n)) = 8 /\ Trim(n)[8] < 128)

\* d * 2^attempt, or d * (attempt + 1) for "linear", d being initialDelay or
\* 1s when initialDelay is zero: the value the delay is said to have
StatedDelay ==
  LET d == IF cfg.initialDelay = Int64(0)
           THEN ToBytes(1000000000, 4)
           ELSE cfg.initialDelay
  IN  IF cfg.backoffType = "linear"
      THEN MulExact(d, cfg.attempt + 1, 0)
      ELSE Pow2Exact(d, cfg.attempt)

SentWorkers == [w \in {v \in Workers : v.pc = "sent"} |-> CopiesIn(w, procs)]

\* C20 as stated: at the moment Run or RunParallel returns its SuiteResult,
\* the number of Increment calls made equals the returned TotalTests
C20_Original ==
  [][(~ret.done /\ ret'.done /\ ret'.err = "nil") =>
       progress' = ret'.result.TotalTests]_vars

\* C20 amended: Increment is called once for every result that is recorded
\* by Run or sent by a worker, after the send; the count equals TotalTests
\* when Run returns, when the simple RunParallel returns, and when the
\* bounded RunParallel returns without a cancellation
C20_IncrementPerResult ==
  /\ SeqRun => progress = Len(testResults)
  /\ ParRun =>
       /\ progress + BagCardinality(SentWorkers)
            = Len(testResults) + Len(results)
       /\ progress <= NumTests
  /\ (Returned /\ (SeqRun \/ cfg.variant = "simple"
                     \/ (~ctxDone /\ trigger = NilResult))) =>
       progress = ret.result.TotalTests

\* the simple RunParallel returned a result cut short by fail-fast
C20_Witness ==
  /\ Returned /\ ParRun /\ cfg.variant = "simple"
  /\ trigger # NilResult
  /\ ret.result.TotalTests < NumTests
  /\ ret.result.TotalTests >= 2
  /\ progress = ret.result.TotalTests

\* a call of Engine.Validate has returned
Validated == cfg.mode = "validate" /\ ret.done

\* the positions of the assertions that do not hold for the result
Failing ==
  {i \in 1..Len(cfg.assertions) :
     ValidateOne(cfg.result, cfg.assertions[i]) # <<>>}

\* the k-th smallest member of a set of positions
Nth(S, k) == CHOOSE i \in S : Cardinality({j \in S : j <= i}) = k

\* C21: Engine.Validate evaluates every assertion of the list, also after a
\* failure, and returns exactly the failures of the failing assertions, one
\* entry each, in the order of the list
C21_ValidateAll ==
  /\ cfg.mode = "validate" =>
       /\ validation.i <= Len(cfg.assertions) + 1
       /\ Len(validation.failures.elems)
            = Cardinality({i \in Failing : i < validation.i})
  /\ Validated =>
       LET fs == ret.failures.elems IN
       /\ validation.i = Len(cfg.assertions) + 1
       /\ Len(fs) = Cardinality(Failing)
       /\ \A k \in 1..Len(fs) :
            fs[k] = ValidateOne(cfg.result, cfg.assertions[Nth(Failing, k)])[1]
       /\ fs = Validate(cfg.result, cfg.assertions)

\* a failing assertion, a passing one and another failing one: two failures
C21_Witness ==
  /\ Validated
  /\ Len(cfg.assertions) = 3
  /\ Failing = {1, 3}
  /\ Len(ret.failures.elems) = 2
  /\ ret.failures.elems[1].Type # ret.failures.elems[2].Type

\* the six assertion types NewEngine registers a validator for
RegisteredTypes ==
  {"status", "body", "body_contains", "json_path", "header", "response_time"}

Unsupported ==
  {i \in 1..Len(cfg.assertions) : cfg.assertions[i].Type \notin RegisteredTypes}

\* C22: an assertion whose Type has no registered validator adds one
\* failure with the message "unsupported assertion type: <type>" (so that the
\* returned slice is not nil), no error is raised, and the assertions after
\* it are still evaluated; no assertion of a registered type is reported so
C22_UnsupportedType ==
  Validated =>
    LET fs == ret.failures.elems
        reported == {k \in 1..Len(fs) :
                       fs[k].Message[1] = "unsupported assertion type: "}
    IN  /\ Unsupported # {} => ~ret.failures.nil
        /\ Cardinality(reported) = Cardinality(Unsupported)
        /\ \A k \in reported :
             /\ fs[k].Type \notin RegisteredTypes
             /\ fs[k].Message = <<"unsupported assertion type: ", fs[k].Type>>
             /\ fs[k].Expected = <<>>
             /\ fs[k].Actual = <<>>
        /\ validation.i = Len(cfg.assertions) + 1
        /\ \A i \in Unsupported : \A j \in Failing :
             j > i => \E k \in 1..Len(fs) :
                        /\ k > Cardinality({l \in Failing : l <= i}) - 1
                        /\ fs[k].Type = cfg.assertions[j].Type

\* an assertion of the type "unknown" first, a failing status assertion
\* after it: two failures
C22_Witness ==
  /\ Validated
  /\ Len(cfg.assertions) = 2
  /\ cfg.assertions[1].Type = "unknown"
  /\ cfg.assertions[2].Type = AssertionStatus
  /\ Len(ret.failures.elems) = 2
  /\ ret.failures.elems[1].Message = <<"unsupported assertion type: ", "unknown">>
  /\ ret.failures.elems[2].Type = AssertionStatus

\* the call validated the single status assertion with the value v
StatusRun(v) ==
  Validated /\ cfg.assertions = <<[Type |-> AssertionStatus, Value |-> v]>>

\* C23: the status assertion ">= 200 && < 300" yields no failure exactly
\* when 200 <= statusCode < 300, and otherwise one failure whose message
\* contains "does not satisfy expression"; a bare integer N yields no
\* failure exactly when statusCode = N (every status code up to MaxStatus)
C23_StatusAssertion ==
  LET fs == ret.failures.elems
      code == cfg.result.StatusCode
  IN  /\ StatusRun(<<">", "=", " ", "2", "0", "0", " ", "&", "&", " ", "<", " ",
                     "3", "0", "0">>) =>
           IF code >= 200 /\ code < 300
           THEN fs = <<>>
           ELSE /\ Len(fs) = 1
                /\ fs[1].Type = AssertionStatus
                /\ \E k \in 1..Len(fs[1].Message) :
                     fs[1].Message[k] = " does not satisfy expression: "
      /\ \A N \in {200, 404} :
           StatusRun(Itoa(N)) => ((fs = <<>>) <=> (code = N))
      /\ StatusRun(<<" ", "2", "0", "1", " ">>) => ((fs = <<>>) <=> (code = 201))

\* status 404 against ">= 200 && < 300": one failure
C23_Witness ==
  /\ StatusRun(<<">", "=", " ", "2", "0", "0", " ", "&", "&", " ", "<", " ",
                 "3", "0", "0">>)
  /\ cfg.result.StatusCode = 404
  /\ Len(ret.failures.elems) = 1
  /\ ret.failures.elems[1].Message[3] = " does not satisfy expression: "

\* the response has a header of that name, up to case
HeaderPresent(name) == \E h \in cfg.result.Headers : EqualFold(h.key, name)

\* the returned failures report the header as not found
NotFoundReported ==
  /\ Len(ret.failures.elems) = 1
  /\ ret.failures.elems[1].Actual = <<"header not found">>

\* C24 as stated: a header assertion yields a failure with Actual = "header
\* not found" whenever the header it names is absent from the response,
\* with any operator and expected value, and never when it is present
C24_HeaderNotFound ==
  \A n \in HeaderNames, o \in HeaderOperatorNames, v \in HeaderExpectedValues :
    (Validated /\ cfg.assertions = <<HeaderAssertion(n, o, v)>>) =>
      (NotFoundReported <=> ~HeaderPresent(n))

\* the goroutine records that a step puts a goroutine into
Entered == {q \in BagToSet(procs') : CopiesIn(q, procs') > CopiesIn(q, procs)}

\* the goroutine records that a step takes a goroutine out of
Left == {p \in Procs : CopiesIn(p, procs') < CopiesIn(p, procs)}

\* a step in which a worker receives from jobs
Dequeues == Len(jobs') < Len(jobs)

\* C25: in RunParallel with fail-fast, a worker whose result has
\* Success = false has cancelled runCtx when it is back at the head of its
\* loop, before it takes another job; and a worker that takes a job when
\* runCtx is cancelled already does not execute it
C25_FailFastCancel ==
  [][ParRun =>
       /\ \A w \in Left :
            (cfg.failFast /\ w.pc \in {"send", "sent"} /\ ~w.res.Success) =>
              \A q \in Entered :
                /\ q.pc \in {"sent", "dequeue", "exit"}
                /\ q.pc = "dequeue" => runCtxDone'
       /\ (Dequeues /\ runCtxDone) =>
            \A q \in Entered : q.pc = "exit" /\ q.execs = 0]_vars

\* the only worker sent a failed result and cancelled, then took the next
\* job and ended without executing it
C25_Witness ==
  /\ ParRun /\ cfg.failFast /\ ~ctxDone
  /\ concurrency = 1
  /\ trigger # NilResult
  /\ ~jobsClosed
  /\ feederIdx - 1 - Len(jobs) = 2
  /\ Len(testResults) + Len(results) = 1
  /\ \A w \in Workers : w.pc = "exit"

\* C26 as stated: the feeder enqueues the tests in suite order, enqueues no
\* job once runCtx is cancelled, and closes the jobs channel exactly once
C26_FeederStops ==
  [][ParRun =>
       /\ feederIdx' # feederIdx =>
            /\ feederIdx' = feederIdx + 1
            /\ jobs' = Append(jobs, feederIdx)
            /\ ~runCtxDone
       /\ jobsClosed => (jobsClosed' /\ feederIdx' = feederIdx)
       /\ (jobsClosed' /\ ~jobsClosed) => (~feederDone /\ feederDone')]_vars

\* W: the configured concurrency, or 10 when it is not positive
StatedWorkers == IF cfg.concurrency >= 1 THEN cfg.concurrency ELSE 10

\* the tests being executed: the workers inside ExecuteWithRetry
Executing ==
  [w \in {v \in Workers : v.pc \in {"executing", "sleep"}} |-> CopiesIn(w, procs)]

\* C27: at no point of a RunParallel are more than W tests being executed,
\* W being the configured concurrency when it is >= 1 and 10 otherwise: the
\* pool has W workers from the start to the end, each with at most one test
C27_ConcurrencyBound ==
  ParRun =>
    /\ BagCardinality(Executing) <= StatedWorkers
    /\ BagCardinality(procs) = StatedWorkers
    /\ \A w \in Procs : w.role = "worker"

\* every worker of a pool of two is executing a test, a third test waits
C27_Witness ==
  /\ ParRun
  /\ StatedWorkers = 2
  /\ BagCardinality(Executing) = 2
  /\ jobs # <<>>

\* every goroutine of RunParallel has ended: the call has returned, the
\* workers, the feeder and the goroutine that closes results have exited
AllExited ==
  /\ ret.done
  /\ \A w \in Procs : w.pc = "exit"
  /\ feederDone
  /\ resultsClosed

\* C28: RunParallel always terminates and leaves no goroutine blocked: for
\* every suite (an empty one too), concurrency, fail-fast setting, with or
\* without a cancellation by the caller, the call returns and every worker,
\* the feeder and the closing goroutine end, given that every single
\* execution returns
C28_Terminates == <>AllExited

\* a cancelled fail-fast run in which everything has ended although results
\* were left behind in the channel
C28_Witness ==
  /\ ParRun /\ AllExited
  /\ cfg.failFast
  /\ trigger # NilResult
  /\ results # <<>>
  /\ ret.result.TotalTests < NumTests

\* C29: in ExecuteWithRetry no backoff sleep follows the final attempt and
\* every completed sleep is followed by another execution: a sleep is only
\* entered before the last attempt, during an execution and at a return
\* with a nil error the sleeps entered (all of them completed) are one fewer
\* than the executions, and at a return caused by cancellation the one sleep
\* more is the interrupted one
C29_SleepsBetweenAttempts ==
  \A p \in Calling :
    LET test == Tests[p.cur] IN
    /\ p.pc = "sleep" =>
         (p.attempt + 1 < maxAttempts(test) /\ p.sleeps = p.execs)
    /\ p.pc = "executing" => p.sleeps = p.execs - 1
    /\ (CallReturned(p) /\ p.returned.err = "nil") => p.sleeps = p.execs - 1
    /\ (CallReturned(p) /\ p.returned.err # "nil") => p.sleeps = p.execs

\* a test with two retries on a listed status was answered 200 in its
\* second attempt: two executions, one sleep, no third attempt
C29_Witness ==
  \E p \in Calling :
    /\ Tests[p.cur].Retries = 2
    /\ Len(Tests[p.cur].RetryOnStatus) > 0
    /\ CallReturned(p)
    /\ p.returned.err = "nil"
    /\ p.returned.result.StatusCode = StatusOK
    /\ p.execs = 2
    /\ p.sleeps = 1

\* the sign and the order of int64 values given as bytes
Negative64(v) == v[8] >= 128

Positive64(v) == ~Negative64(v) /\ v # Int64(0)

RECURSIVE BelowFrom(_, _, _)
BelowFrom(x, y, k) ==
  IF k = 0 THEN FALSE
  ELSE IF x[k] # y[k] THEN x[k] < y[k]
  ELSE BelowFrom(x, y, k - 1)

Less64(x, y) ==
  IF Negative64(x) # Negative64(y) THEN Negative64(x) ELSE BelowFrom(x, y, 8)

\* C30 as stated: with exponential backoff and a positive initial delay the
\* delay calculateDelay returns for an attempt index below the cap of 100
\* retries is positive and not smaller than the delay of the attempt before
C30_DelayGrows ==
  (ret.done /\ cfg.mode = "delay" /\ cfg.backoffType = "exponential"
     /\ Positive64(cfg.initialDelay)) =>
    /\ Positive64(ret.delay)
    /\ cfg.attempt > 0 =>
         ~Less64(ret.delay,
                 calculateDelay(cfg.attempt - 1, cfg.initialDelay,
                                cfg.backoffType))

====
